---- MODULE Spec2Model ----
(***************************************************************************)
(* The main loop of the miner, src/llm_defender/neurons/miner.py, main().  *)
(*                                                                         *)
(* One action per statement of the loop body that calls out of the process *)
(* (subtensor, metagraph, remote blacklist, wandb, axon); every such call  *)
(* either returns or raises, and a raise goes to the handler of line 160.  *)
(* KeyboardInterrupt can be delivered between any two statements of the   *)
(* try block.  The ledger (block height, participants, statistics) is the  *)
(* environment; the loop observes it only through its reads, so a change   *)
(* of the ledger is interleaved just before the read that can see it.      *)
(***************************************************************************)
EXTENDS Integers, Sequences, FiniteSets

\* ------------------------------------------------------------- bounds
\* The loop is explored for step = 0 .. MaxStep.
MaxStep == 601
\* The ledger's block height is explored up to MaxBlock (it starts at 0).
MaxBlock == 202
\* The ledger's view of the network changes at most MaxVersion times.
MaxVersion == 1
\* Participants registered on the subnet when the miner starts.
StartN == 2
\* Under fairness the loop is explored for step = 0 .. MaxLiveStep.
MaxLiveStep == 21

\* ------------------------------------------------- program constants
UmbrellaCadence == 20
BlacklistCadence == 300
SyncCadence == 600
StalenessWindow == 100

\* A block height the ledger never reports: current_block before line 59.
NoBlock == 0 - 1

VARIABLES
    \* the miner object
    step,                 \* miner.step
    last_updated_block,   \* miner.last_updated_block
    hotkey_blacklisted,   \* miner.hotkey_blacklisted
    metagraph,            \* miner.metagraph: [n, version]
    miner_uid,            \* miner.miner_uid
    miner_set_weights,    \* miner.miner_set_weights
    wandb_enabled,        \* miner.wandb_enabled
    \* locals of main()
    current_block,        \* line 59
    weights,              \* lines 64-65
    result,               \* line 74: "None" | "True" | "False"
    wandb_logs,           \* lines 118-144: the entries not yet logged
    \* control
    pc,                   \* the statement main() executes next
    loop_state,           \* "Running" | "ShuttingDown" | "Stopped"
    last_exit,            \* how the previous iteration ended
    \* what the loop did, as its collaborators see it
    calls,                \* external calls of the current iteration, in order
    emitted,              \* entries given to wandb_handler.log this iteration
    stop_calls,           \* axon.stop() calls
    flush_calls,          \* wandb_run.finish() calls
    startup_block,        \* the block height line 53 read
    \* the ledger
    chain_block,          \* subtensor.block
    chain_n,              \* participants registered
    chain_version,        \* version of the participants' statistics
    \* what the collaborators last answered
    remote_answer,        \* the remote blacklist's last answer (listed or not)
    submitted_block       \* current_block of the last set_weights that returned

minerVars == <<step, last_updated_block, hotkey_blacklisted, metagraph,
               miner_uid, miner_set_weights, wandb_enabled>>
localVars == <<current_block, weights, result, wandb_logs>>
ctlVars == <<pc, loop_state, last_exit>>
obsVars == <<calls, emitted, stop_calls, flush_calls, startup_block>>
chainVars == <<chain_block, chain_n, chain_version>>
configVars == <<miner_uid, miner_set_weights, wandb_enabled, startup_block>>
histVars == <<remote_answer, submitted_block>>
vars == <<minerVars, localVars, ctlVars, obsVars, chainVars, histVars>>

\* ------------------------------------------------------------ helpers
RECURSIVE Sum(_)
Sum(s) == IF s = <<>> THEN 0 ELSE Head(s) + Sum(Tail(s))

RECURSIVE Count(_, _)
Count(s, x) ==
    IF s = <<>> THEN 0
    ELSE (IF Head(s) = x THEN 1 ELSE 0) + Count(Tail(s), x)

Called(op) == \E i \in 1..Len(calls) : calls[i] = op

\* The names of the five statistics of lines 118-144, in list order.
MetricNames == <<"rank", "trust", "consensus", "incentive", "emission">>

\* The sizes by which the ledger's block height moves between two reads:
\* exactly the staleness window, and one block more.
BlockJumps == {StalenessWindow, StalenessWindow + 1}

\* subtensor.metagraph(netuid): the ledger's current view of the network.
LedgerView == [n |-> chain_n, version |-> chain_version]

\* ------------------------------------------------------ the loop body
\* UmbrellaDue tested against half the cadence.
UmbrellaDueTwiceAsOften == step % (UmbrellaCadence \div 2) = 0

\* SyncDue tested against the blacklist cadence.
SyncDueAtBlacklistCadence == step % BlacklistCadence = 0

\* BlacklistDue suppressed on the first iteration.
BlacklistDueAfterStart == step > 0 /\ step % BlacklistCadence = 0

\* step % 20 == 0 (line 57), step % 300 == 0 (line 90), step % 600 == 0 (94)
UmbrellaDue == step % UmbrellaCadence = 0
BlacklistDue == step % BlacklistCadence = 0
SyncDue == step % SyncCadence = 0

\* WeightsDue with >= for >.
WeightsDueNonStrict(block) ==
    /\ block - last_updated_block >= StalenessWindow
    /\ miner_set_weights = TRUE

\* lines 60-63: the condition under which weights are set
WeightsDue(block) ==
    /\ block - last_updated_block > StalenessWindow
    /\ miner_set_weights = TRUE

\* Weights with the 1.0 written one index too low.
WeightsIndexSlip(n, uid) == [i \in 1..n |-> IF i = uid THEN 1 ELSE 0]

\* lines 64-65: torch.Tensor([0.0] * len(uids)); weights[miner_uid] = 1.0
\* (position i of the sequence is index i - 1 of the tensor)
Weights(n, uid) == [i \in 1..n |-> IF i = uid + 1 THEN 1 ELSE 0]

\* lines 118-144: one entry per statistic, read from miner.metagraph
WandbLogs ==
    [i \in 1..Len(MetricNames) |->
        [tag |-> MetricNames[i], uid |-> miner_uid, snapshot |-> metagraph]]

Running == loop_state = "Running"

ClearLocals ==
    /\ current_block' = NoBlock
    /\ weights' = <<>>
    /\ result' = "None"
    /\ wandb_logs' = <<>>

\* Raise without the handler of line 160: the exception leaves main().
RaiseUncaught(op) ==
    /\ calls' = Append(calls, op)
    /\ pc' = "done"
    /\ loop_state' = "Stopped"
    /\ ClearLocals
    /\ UNCHANGED <<histVars, minerVars, last_exit, emitted, stop_calls, flush_calls,
                   startup_block, chainVars>>

\* Raise with a handler that also clears the blacklist flag.
RaiseClearsBlacklist(op) ==
    /\ calls' = Append(calls, op)
    /\ pc' = "top"
    /\ last_exit' = "error"
    /\ ClearLocals
    /\ hotkey_blacklisted' = FALSE
    /\ UNCHANGED <<histVars, step, last_updated_block, metagraph, configVars,
                   loop_state, emitted, stop_calls, flush_calls, chainVars>>

\* Raise with a handler that starts the step counter over.
RaiseResetsStep(op) ==
    /\ calls' = Append(calls, op)
    /\ pc' = "top"
    /\ last_exit' = "error"
    /\ ClearLocals
    /\ step' = 0
    /\ UNCHANGED <<histVars, last_updated_block, hotkey_blacklisted,
                   metagraph, configVars, loop_state, emitted, stop_calls,
                   flush_calls, chainVars>>

\* lines 160-162: except Exception: log the traceback and continue.  The
\* call `op` raised: the iteration is abandoned and the loop starts over.
Raise(op) ==
    /\ calls' = Append(calls, op)
    /\ pc' = "top"
    /\ last_exit' = "error"
    /\ ClearLocals
    /\ UNCHANGED <<histVars, minerVars, loop_state, emitted, stop_calls, flush_calls,
                   startup_block, chainVars>>

Init ==
    /\ step = 0
    /\ chain_block = 0
    /\ chain_n = StartN
    /\ chain_version = 0
    /\ startup_block = chain_block
    /\ last_updated_block = chain_block
    /\ hotkey_blacklisted \in BOOLEAN
    /\ metagraph = LedgerView
    /\ miner_uid \in 0..(StartN - 1)
    /\ miner_set_weights \in BOOLEAN
    /\ wandb_enabled \in BOOLEAN
    /\ current_block = NoBlock
    /\ weights = <<>>
    /\ result = "None"
    /\ wandb_logs = <<>>
    /\ pc = "top"
    /\ loop_state = "Running"
    /\ last_exit = "none"
    /\ calls = <<>>
    /\ emitted = <<>>
    /\ stop_calls = 0
    /\ flush_calls = 0
    /\ remote_answer = hotkey_blacklisted
    /\ submitted_block = NoBlock

\* IdleTick with `miner.step += 1` indented into the if of line 57.
IdleTickNoIncrement ==
    /\ pc = "top" /\ Running /\ step < MaxStep
    /\ ~UmbrellaDue
    /\ last_exit' = "slept"
    /\ calls' = <<>>
    /\ emitted' = <<>>
    /\ UNCHANGED <<histVars, minerVars, localVars, pc, loop_state,
                   stop_calls, flush_calls, startup_block, chainVars>>

\* line 57 false, lines 150-151: an iteration on which nothing is due
IdleTick ==
    /\ pc = "top" /\ Running /\ step < MaxStep
    /\ ~UmbrellaDue
    /\ step' = step + 1
    /\ last_exit' = "slept"
    /\ calls' = <<>>
    /\ emitted' = <<>>
    /\ UNCHANGED <<histVars, last_updated_block, hotkey_blacklisted, metagraph,
                   configVars, localVars, pc, loop_state, stop_calls,
                   flush_calls, chainVars>>

\* line 57 true: the iteration runs the periodic tasks
BeginTick ==
    /\ pc = "top" /\ Running /\ step < MaxStep
    /\ UmbrellaDue
    /\ pc' = "readBlock"
    /\ last_exit' = "none"
    /\ calls' = <<>>
    /\ emitted' = <<>>
    /\ UNCHANGED <<histVars, minerVars, localVars, loop_state, stop_calls, flush_calls,
                   startup_block, chainVars>>

\* lines 59-65: read the block height, decide whether weights are set
ReadBlock ==
    /\ pc = "readBlock" /\ Running
    /\ \/ /\ current_block' = chain_block
          /\ calls' = Append(calls, "subtensor.block")
          /\ weights' = IF WeightsDue(chain_block)
                         THEN Weights(metagraph.n, miner_uid) ELSE <<>>
          /\ pc' = IF WeightsDue(chain_block) THEN "setWeights" ELSE "blacklist"
          /\ UNCHANGED <<histVars, minerVars, result, wandb_logs, loop_state, last_exit,
                         emitted, stop_calls, flush_calls, startup_block,
                         chainVars>>
       \/ Raise("subtensor.block")

\* lines 74-86: subtensor.set_weights(...); the ledger accepts or refuses
SetWeights ==
    /\ pc = "setWeights" /\ Running
    /\ \/ /\ result' \in {"True", "False"}
          /\ submitted_block' = current_block
          /\ calls' = Append(calls, "subtensor.set_weights")
          /\ pc' = "updateBlock"
          /\ UNCHANGED <<remote_answer, minerVars, current_block, weights, wandb_logs,
                         loop_state, last_exit, emitted, stop_calls,
                         flush_calls, startup_block, chainVars>>
       \/ Raise("subtensor.set_weights")

\* UpdateLastBlock storing the next block at which weights may be set.
UpdateLastBlockAhead ==
    /\ pc = "updateBlock" /\ Running
    /\ \/ /\ last_updated_block' = chain_block + StalenessWindow
          /\ calls' = Append(calls, "subtensor.block")
          /\ pc' = "blacklist"
          /\ UNCHANGED <<histVars, step, hotkey_blacklisted, metagraph,
                         configVars, localVars, loop_state, last_exit,
                         emitted, stop_calls, flush_calls, chainVars>>
       \/ Raise("subtensor.block")

\* line 88: miner.last_updated_block = miner.subtensor.block
UpdateLastBlock ==
    /\ pc = "updateBlock" /\ Running
    /\ \/ /\ last_updated_block' = chain_block
          /\ calls' = Append(calls, "subtensor.block")
          /\ pc' = "blacklist"
          /\ UNCHANGED <<histVars, step, hotkey_blacklisted, metagraph, configVars,
                         localVars, loop_state, last_exit, emitted,
                         stop_calls, flush_calls, chainVars>>
       \/ Raise("subtensor.block")

\* LLMDefenderMiner.check_remote_blacklist(): the remote answers that the
\* hotkey is listed or clear, or the query fails and the flag is kept.
check_remote_blacklist(answer) ==
    /\ hotkey_blacklisted' =
        IF answer = "error" THEN hotkey_blacklisted ELSE (answer = "listed")
    /\ remote_answer' =
        IF answer = "error" THEN remote_answer ELSE (answer = "listed")

\* CheckRemoteBlacklist written as an elif of the weights branch: the
\* blacklist is not queried in an iteration that has set weights.
CheckRemoteBlacklistElif ==
    /\ pc = "blacklist" /\ Running
    /\ \/ /\ BlacklistDue /\ ~Called("subtensor.set_weights")
          /\ \E answer \in {"listed", "clear", "error"} :
                check_remote_blacklist(answer)
          /\ calls' = Append(calls, "check_remote_blacklist")
          /\ pc' = "sync"
          /\ ClearLocals
          /\ UNCHANGED <<submitted_block, step, last_updated_block, metagraph,
                         configVars,
                         loop_state, last_exit, emitted, stop_calls,
                         flush_calls, chainVars>>
       \/ /\ ~BlacklistDue \/ Called("subtensor.set_weights")
          /\ pc' = "sync"
          /\ ClearLocals
          /\ UNCHANGED <<histVars, minerVars, loop_state, last_exit, obsVars, chainVars>>

\* lines 90-92.  current_block, weights and result are not read past line
\* 88: the model forgets them here.
CheckRemoteBlacklist ==
    /\ pc = "blacklist" /\ Running
    /\ \/ /\ BlacklistDue
          /\ \E answer \in {"listed", "clear", "error"} :
                check_remote_blacklist(answer)
          /\ calls' = Append(calls, "check_remote_blacklist")
          /\ pc' = "sync"
          /\ ClearLocals
          /\ UNCHANGED <<submitted_block, step, last_updated_block, metagraph,
                         configVars,
                         loop_state, last_exit, emitted, stop_calls,
                         flush_calls, chainVars>>
       \/ /\ BlacklistDue
          /\ Raise("check_remote_blacklist")
       \/ /\ ~BlacklistDue
          /\ pc' = "sync"
          /\ ClearLocals
          /\ UNCHANGED <<histVars, minerVars, loop_state, last_exit, obsVars, chainVars>>

\* lines 94-99: miner.metagraph.sync(subtensor=miner.subtensor)
SyncMetagraph ==
    /\ pc = "sync" /\ Running
    /\ \/ /\ SyncDue
          /\ metagraph' = LedgerView
          /\ calls' = Append(calls, "metagraph.sync")
          /\ pc' = "refresh"
          /\ UNCHANGED <<histVars, step, last_updated_block, hotkey_blacklisted,
                         configVars, localVars, loop_state, last_exit,
                         emitted, stop_calls, flush_calls, chainVars>>
       \/ /\ SyncDue
          /\ Raise("metagraph.sync")
       \/ /\ ~SyncDue
          /\ pc' = "refresh"
          /\ UNCHANGED <<histVars, minerVars, localVars, loop_state, last_exit, obsVars,
                         chainVars>>

\* RefreshMetagraph updating the statistics of the snapshot it holds in
\* place, without replacing its list of participants.
RefreshMetagraphInPlace ==
    /\ pc = "refresh" /\ Running
    /\ \/ /\ metagraph' = [metagraph EXCEPT !.version = chain_version]
          /\ calls' = Append(calls, "subtensor.metagraph")
          /\ pc' = "log"
          /\ UNCHANGED <<histVars, step, last_updated_block,
                         hotkey_blacklisted, configVars, localVars,
                         loop_state, last_exit, emitted, stop_calls,
                         flush_calls, chainVars>>
       \/ Raise("subtensor.metagraph")

\* line 101: miner.metagraph = miner.subtensor.metagraph(netuid)
RefreshMetagraph ==
    /\ pc = "refresh" /\ Running
    /\ \/ /\ metagraph' = LedgerView
          /\ calls' = Append(calls, "subtensor.metagraph")
          /\ pc' = "log"
          /\ UNCHANGED <<histVars, step, last_updated_block, hotkey_blacklisted,
                         configVars, localVars, loop_state, last_exit,
                         emitted, stop_calls, flush_calls, chainVars>>
       \/ Raise("subtensor.metagraph")

\* LogStatus without the test of miner.wandb_enabled (line 117).
LogStatusAlwaysWandb ==
    /\ pc = "log" /\ Running
    /\ calls' = Append(calls, "logging.info")
    /\ wandb_logs' = WandbLogs
    /\ pc' = "setTimestamp"
    /\ UNCHANGED <<histVars, minerVars, current_block, weights, result,
                   loop_state, last_exit, emitted, stop_calls, flush_calls,
                   startup_block, chainVars>>

\* lines 102-144: log the status line; with wandb, collect the entries
LogStatus ==
    /\ pc = "log" /\ Running
    /\ calls' = Append(calls, "logging.info")
    /\ wandb_logs' = IF wandb_enabled THEN WandbLogs ELSE <<>>
    /\ pc' = IF wandb_enabled THEN "setTimestamp" ELSE "incr"
    /\ UNCHANGED <<histVars, minerVars, current_block, weights, result, loop_state,
                   last_exit, emitted, stop_calls, flush_calls, startup_block,
                   chainVars>>

\* line 145: miner.wandb_handler.set_timestamp()
SetTimestamp ==
    /\ pc = "setTimestamp" /\ Running
    /\ \/ /\ calls' = Append(calls, "wandb.set_timestamp")
          /\ pc' = "wandbLog"
          /\ UNCHANGED <<histVars, minerVars, localVars, loop_state, last_exit, emitted,
                         stop_calls, flush_calls, startup_block, chainVars>>
       \/ Raise("wandb.set_timestamp")

\* lines 146-148: miner.wandb_handler.log(data=wandb_log), entry by entry
WandbLog ==
    /\ pc = "wandbLog" /\ Running
    /\ \/ /\ emitted' = Append(emitted, Head(wandb_logs))
          /\ wandb_logs' = Tail(wandb_logs)
          /\ calls' = Append(calls, "wandb.log")
          /\ pc' = IF Len(wandb_logs) = 1 THEN "incr" ELSE "wandbLog"
          /\ UNCHANGED <<histVars, minerVars, current_block, weights, result,
                         loop_state, last_exit, stop_calls, flush_calls,
                         startup_block, chainVars>>
       \/ Raise("wandb.log")

\* lines 150-151: miner.step += 1; time.sleep(1)
EndTick ==
    /\ pc = "incr" /\ Running
    /\ step' = step + 1
    /\ pc' = "top"
    /\ last_exit' = "slept"
    /\ calls' = <<>>
    /\ emitted' = <<>>
    /\ UNCHANGED <<histVars, last_updated_block, hotkey_blacklisted, metagraph,
                   configVars, localVars, loop_state, stop_calls, flush_calls,
                   chainVars>>

\* KeyboardInterrupt held back until the iteration in progress has made its
\* step increment.
KeyboardInterruptAfterTick ==
    /\ Running
    /\ pc' = "stopAxon"
    /\ loop_state' = "ShuttingDown"
    /\ step' = IF pc = "top" THEN step ELSE step + 1
    /\ UNCHANGED <<histVars, last_updated_block, hotkey_blacklisted,
                   metagraph, configVars, localVars, last_exit, calls,
                   emitted, stop_calls, flush_calls, chainVars>>

\* line 154: KeyboardInterrupt is raised wherever the try block stands
KeyboardInterrupt ==
    /\ Running
    /\ pc' = "stopAxon"
    /\ loop_state' = "ShuttingDown"
    /\ UNCHANGED <<histVars, minerVars, localVars, last_exit, obsVars, chainVars>>

\* lines 155-156: axon.stop()
StopAxon ==
    /\ pc = "stopAxon"
    /\ stop_calls' = stop_calls + 1
    /\ pc' = "finish"
    /\ UNCHANGED <<histVars, minerVars, localVars, loop_state, last_exit, calls,
                   emitted, flush_calls, startup_block, chainVars>>

\* Finish without the break of line 158: the loop is entered again.
FinishNoBreak ==
    /\ pc = "finish"
    /\ flush_calls' = flush_calls + 1
    /\ pc' = "top"
    /\ loop_state' = "Running"
    /\ UNCHANGED <<histVars, minerVars, localVars, last_exit, calls, emitted,
                   stop_calls, startup_block, chainVars>>

\* lines 157-158: miner.wandb_handler.wandb_run.finish(); break
Finish ==
    /\ pc = "finish"
    /\ flush_calls' = flush_calls + 1
    /\ pc' = "done"
    /\ loop_state' = "Stopped"
    /\ UNCHANGED <<histVars, minerVars, localVars, last_exit, calls, emitted,
                   stop_calls, startup_block, chainVars>>

\* -------------------------------------------------------- the ledger
\* New blocks are produced; the loop can tell only at its next read of
\* subtensor.block (lines 59 and 88).
BlockAdvance ==
    /\ Running /\ pc \in {"readBlock", "updateBlock"}
    /\ \E j \in BlockJumps :
        /\ chain_block + j <= MaxBlock
        /\ chain_block' = chain_block + j
    /\ UNCHANGED <<histVars, minerVars, localVars, ctlVars, obsVars, chain_n,
                   chain_version>>

\* The participants' statistics change, and a participant may register; the
\* loop can tell only at its next read of the metagraph (lines 99 and 101).
LedgerChange ==
    /\ Running
    /\ pc = "refresh" \/ (pc = "sync" /\ SyncDue)
    /\ chain_version < MaxVersion
    /\ chain_version' = chain_version + 1
    /\ chain_n' \in {chain_n, chain_n + 1}
    /\ UNCHANGED <<histVars, minerVars, localVars, ctlVars, obsVars, chain_block>>

Next ==
    \/ IdleTick
    \/ BeginTick
    \/ ReadBlock
    \/ SetWeights
    \/ UpdateLastBlock
    \/ CheckRemoteBlacklist
    \/ SyncMetagraph
    \/ RefreshMetagraph
    \/ LogStatus
    \/ SetTimestamp
    \/ WandbLog
    \/ EndTick
    \/ KeyboardInterrupt
    \/ StopAxon
    \/ Finish
    \/ BlockAdvance
    \/ LedgerChange

Spec == Init /\ [][Next]_vars

\* The loop when no KeyboardInterrupt is delivered, explored for
\* step = 0 .. MaxLiveStep.  The block height moves, since it decides
\* whether set_weights is called; the ledger's view of the network, which
\* decides no branch of the loop, stays as it is at startup.
InLiveRange == step < MaxLiveStep

LiveNext ==
    \/ InLiveRange /\ IdleTick
    \/ InLiveRange /\ BeginTick
    \/ InLiveRange /\ ReadBlock
    \/ InLiveRange /\ SetWeights
    \/ InLiveRange /\ UpdateLastBlock
    \/ InLiveRange /\ CheckRemoteBlacklist
    \/ InLiveRange /\ SyncMetagraph
    \/ InLiveRange /\ RefreshMetagraph
    \/ InLiveRange /\ LogStatus
    \/ InLiveRange /\ SetTimestamp
    \/ InLiveRange /\ WandbLog
    \/ InLiveRange /\ EndTick
    \/ InLiveRange /\ BlockAdvance

\* A call of the loop body has returned (it has not raised).
Returned == InLiveRange /\ pc' # "top"

\* The interpreter executes the next statement of main(); a call that is
\* made again and again does not raise every time.  wandb_handler.log is
\* one call per entry of wandb_logs.
Fairness ==
    /\ WF_vars(InLiveRange /\ (IdleTick \/ BeginTick \/ LogStatus \/ EndTick))
    /\ SF_vars(ReadBlock /\ Returned)
    /\ SF_vars(SetWeights /\ Returned)
    /\ SF_vars(UpdateLastBlock /\ Returned)
    /\ SF_vars(CheckRemoteBlacklist /\ Returned)
    /\ SF_vars(SyncMetagraph /\ Returned)
    /\ SF_vars(RefreshMetagraph /\ Returned)
    /\ SF_vars(SetTimestamp /\ Returned)
    /\ \A k \in 1..Len(MetricNames) :
          SF_vars(WandbLog /\ Returned /\ Len(wandb_logs) = k)

\* Every call of the loop body is made: weights are set and wandb is on.
\* Which uid the miner has, and whether it starts blacklisted, decides no
\* branch of the loop.
LiveInit ==
    /\ Init
    /\ miner_set_weights
    /\ wandb_enabled
    /\ miner_uid = 0
    /\ ~hotkey_blacklisted

LiveSpec == LiveInit /\ [][LiveNext]_vars /\ Fairness

TypeOK ==
    /\ step \in 0..MaxStep
    /\ pc \in {"top", "readBlock", "setWeights", "updateBlock", "blacklist",
               "sync", "refresh", "log", "setTimestamp", "wandbLog", "incr",
               "stopAxon", "finish", "done"}
    /\ loop_state \in {"Running", "ShuttingDown", "Stopped"}

\* ------------------------------------------------------------ claims
\* The calls of an iteration that sets weights, and of one that does not,
\* up to the blacklist check.
WeightCalls(submitted) ==
    IF submitted
    THEN <<"subtensor.block", "subtensor.set_weights", "subtensor.block">>
    ELSE <<"subtensor.block">>

\* The calls of the wandb branch, lines 145-147.
TelemetryCalls ==
    <<"wandb.set_timestamp", "wandb.log", "wandb.log", "wandb.log",
      "wandb.log", "wandb.log">>

\* C1: an iteration in which a call raises still ends with step one higher:
\* whenever the loop is back at its head after an error, step has been
\* incremented by exactly 1 (the same step is not run again).
C1_FailedTickIncrementsStep ==
    [][(pc # "top" /\ pc' = "top" /\ last_exit' = "error")
         => step' = step + 1]_vars

\* C2: no error makes the loop leave Running.  A step that leaves Running
\* is the delivery of KeyboardInterrupt (it enters the handler of line 154,
\* in state ShuttingDown, and is no call that raised), and a step in which
\* a call raises leaves the loop Running, at its head.
C2_OnlyInterruptLeavesRunning ==
    [][/\ (loop_state = "Running" /\ loop_state' # "Running")
            => /\ loop_state' = "ShuttingDown"
               /\ pc' = "stopAxon"
               /\ calls' = calls
               /\ last_exit' = last_exit
       /\ (calls' # calls /\ last_exit' = "error")
            => /\ loop_state' = "Running"
               /\ pc' = "top"]_vars

\* C2 witness: a call of an iteration has raised and the loop is Running.
C2_Witness ==
    /\ loop_state = "Running"
    /\ pc = "top"
    /\ last_exit = "error"
    /\ calls = <<"subtensor.block", "check_remote_blacklist">>

\* C3: when set_weights reports failure, last_updated_block is left
\* unchanged by the iteration.
C3_FailedSubmitKeepsLastBlock ==
    [][(pc = "updateBlock" /\ result = "False")
         => last_updated_block' = last_updated_block]_vars

\* C4: after a successful set_weights, last_updated_block is the block
\* height read at line 59 of that iteration, the one the staleness check
\* used, and not one read later.
C4_LastBlockIsBlockChecked ==
    (pc = "blacklist" /\ result = "True") => last_updated_block = current_block

\* C5: weights are submitted only on a step that is a multiple of 20, with
\* miner_set_weights true and more than 100 blocks (strictly) since
\* last_updated_block; with miner_set_weights false nothing is ever
\* submitted and last_updated_block keeps its startup value.
C5_SubmitOnlyWhenStale ==
    /\ pc \in {"setWeights", "updateBlock"}
         => /\ step % 20 = 0
            /\ miner_set_weights
            /\ current_block - last_updated_block > 100
    /\ Called("subtensor.set_weights") => (step % 20 = 0 /\ miner_set_weights)
    /\ ~miner_set_weights
         => /\ ~Called("subtensor.set_weights")
            /\ pc \notin {"setWeights", "updateBlock"}
            /\ last_updated_block = startup_block

\* C5 witness: set_weights has been called at a delta of exactly 101.
C5_Witness ==
    /\ pc = "updateBlock"
    /\ Called("subtensor.set_weights")
    /\ current_block - last_updated_block = 101

\* C6: on a step that is not a multiple of 20 no task runs (no external
\* call is made, the loop is at its head or shutting down), and the
\* iteration leaves last_updated_block, hotkey_blacklisted and metagraph
\* as they are and increases step by exactly 1, unless KeyboardInterrupt
\* ends the loop.
C6_IdleTickOnlyIncrements ==
    /\ [](step % 20 # 0
            => /\ pc \in {"top", "stopAxon", "finish", "done"}
               /\ calls = <<>>
               /\ emitted = <<>>)
    /\ [][(step % 20 # 0 /\ loop_state = "Running")
            => /\ UNCHANGED <<last_updated_block, hotkey_blacklisted,
                              metagraph, calls, emitted>>
               /\ \/ step' = step + 1 /\ pc' = "top"
                  \/ step' = step /\ loop_state' = "ShuttingDown"]_vars

\* C6 witness: the iteration of step 21 has completed.
C6_Witness ==
    /\ step = 22
    /\ pc = "top"
    /\ last_exit = "slept"
    /\ loop_state = "Running"

\* C7: the blacklist is queried only on a step that is a multiple of 300
\* and the metagraph is resynced only on a step that is a multiple of 600;
\* on a multiple of 20 that is not a multiple of 300 only the block reads,
\* set_weights, the metagraph refresh, the status line and wandb are called.
C7_CadenceOfBlacklistAndSync ==
    /\ Called("check_remote_blacklist") => step % 300 = 0
    /\ Called("metagraph.sync") => step % 600 = 0
    /\ (step % 20 = 0 /\ step % 300 # 0)
         => \A i \in 1..Len(calls) :
               calls[i] \in {"subtensor.block", "subtensor.set_weights",
                             "subtensor.metagraph", "logging.info",
                             "wandb.set_timestamp", "wandb.log"}

\* C7 witness: the iteration of step 320 has run its tasks, weights and
\* wandb included.
C7_Witness ==
    /\ step = 320
    /\ pc = "incr"
    /\ Called("subtensor.set_weights")
    /\ Called("wandb.log")

\* C8: in an iteration on which every cadence is due (step a multiple of
\* 600) and no call raises, the calls are, in this order and once each: the
\* weights (when they are due), the blacklist query, the resync, the
\* metagraph refresh, the status line and, with wandb, the five entries;
\* weights that are due are never left out.
C8_AllDueTasksInOrder ==
    /\ (pc = "incr" /\ step % 600 = 0)
         => calls = WeightCalls(Called("subtensor.set_weights"))
                    \o <<"check_remote_blacklist", "metagraph.sync",
                         "subtensor.metagraph", "logging.info">>
                    \o (IF wandb_enabled THEN TelemetryCalls ELSE <<>>)
    /\ (pc = "blacklist" /\ ~Called("subtensor.set_weights"))
         => ~(miner_set_weights /\ current_block - last_updated_block > 100)

\* C8 witness: the iteration of step 600 has run every task.
C8_Witness ==
    /\ step = 600
    /\ pc = "incr"
    /\ Called("subtensor.set_weights")
    /\ Called("check_remote_blacklist")
    /\ Called("metagraph.sync")
    /\ Called("wandb.log")

\* C9: the vector given to set_weights has one entry per participant of
\* the metagraph held at that time, 1 at miner_uid, 0 elsewhere, sum 1.
C9_WeightVector ==
    pc \in {"setWeights", "updateBlock"}
      => /\ Len(weights) = metagraph.n
         /\ \A i \in 1..Len(weights) :
               weights[i] = (IF i - 1 = miner_uid THEN 1 ELSE 0)
         /\ Sum(weights) = 1

\* C9 witness: set_weights has been called with three participants in the
\* metagraph, the ledger having registered one since the start.
C9_Witness ==
    /\ pc = "updateBlock"
    /\ Called("subtensor.set_weights")
    /\ metagraph.n = StartN + 1
    /\ Len(weights) = StartN + 1
    /\ miner_uid = 1

C11_CancellationOnlyAtTop ==
    [][(loop_state = "Running" /\ loop_state' # "Running") => pc = "top"]_vars

\* C11 as amended: a KeyboardInterrupt takes effect at once, wherever the
\* try block stands: the step that leaves Running enters the handler of
\* line 154 with step, the calls made and the miner's state as they are,
\* so the rest of the iteration in progress (its remaining tasks and its
\* step increment) is not run.
C11_CancellationImmediate ==
    [][(loop_state = "Running" /\ loop_state' # "Running")
         => /\ pc' = "stopAxon"
            /\ loop_state' = "ShuttingDown"
            /\ UNCHANGED <<step, calls, emitted, last_updated_block,
                           hotkey_blacklisted, metagraph>>]_vars

\* C11 witness: the loop is shutting down between set_weights and line 88
\* of the iteration of step 20, with last_updated_block not updated.
C11_Witness ==
    /\ loop_state = "ShuttingDown"
    /\ pc = "stopAxon"
    /\ step = 20
    /\ calls = <<"subtensor.block", "subtensor.set_weights">>
    /\ last_updated_block = startup_block

\* C12: hotkey_blacklisted is the last answer of the remote blacklist (its
\* startup value before any answer), and it changes only in the blacklist
\* query of an iteration whose step is a multiple of 300.
C12_BlacklistIsLastAnswer ==
    /\ [](hotkey_blacklisted = remote_answer)
    /\ [][hotkey_blacklisted' # hotkey_blacklisted
            => /\ pc = "blacklist"
               /\ step % 300 = 0
               /\ calls' = Append(calls, "check_remote_blacklist")]_vars

\* C12 witness: the query of step 300 has answered that the hotkey is
\* listed.
C12_Witness ==
    /\ step = 300
    /\ pc = "sync"
    /\ Called("check_remote_blacklist")
    /\ hotkey_blacklisted
    /\ remote_answer

\* C13: the first iteration (step 0), with the ledger still at the block
\* height of startup and no call raising, makes every periodic call but
\* set_weights: the block read, the blacklist query, the resync, the
\* metagraph refresh, the status line and, with wandb, the entries; it
\* ends with step = 1.
C13_FirstTickFiresAll ==
    /\ []((step = 0 /\ pc = "incr" /\ chain_block = startup_block)
            => /\ calls = <<"subtensor.block", "check_remote_blacklist",
                            "metagraph.sync", "subtensor.metagraph",
                            "logging.info">>
                          \o (IF wandb_enabled THEN TelemetryCalls ELSE <<>>)
               /\ last_updated_block = startup_block)
    /\ [][(step = 0 /\ pc = "incr" /\ loop_state' = "Running")
            => (step' = 1 /\ pc' = "top")]_vars

\* C13 witness: the first iteration has made its calls, wandb included,
\* with the ledger at the block height of startup.
C13_Witness ==
    /\ step = 0
    /\ pc = "incr"
    /\ chain_block = startup_block
    /\ Called("check_remote_blacklist")
    /\ Called("metagraph.sync")
    /\ Len(emitted) = 5

\* C14: step starts at 0 and every change of step is an increment by 1.
C14_StepMonotonic ==
    /\ step = 0
    /\ [][step' = step \/ step' = step + 1]_vars

\* C14 witness: a call of the iteration of step 20 has raised, and step is
\* still 20.
C14_Witness ==
    /\ step = 20
    /\ pc = "top"
    /\ last_exit = "error"

\* C15: an iteration starts only after the pause of line 151 (the first
\* one excepted), also after an iteration in which a call raised.
C15_PauseBeforeEveryIteration ==
    pc = "top" => last_exit \in {"none", "slept"}

\* C16: the refresh of line 101 replaces miner.metagraph by the ledger's
\* current view, whole; done again with the ledger unchanged since, it
\* yields the same metagraph.
C16_RefreshReplacesWholesale ==
    [][(pc = "refresh" /\ pc' = "log")
         => /\ metagraph' = [n |-> chain_n, version |-> chain_version]
            /\ (metagraph = [n |-> chain_n, version |-> chain_version]
                  => metagraph' = metagraph)]_vars

\* C16 witness: the metagraph has been refreshed at step 40 and holds the
\* participant the ledger has registered since startup.
C16_Witness ==
    /\ step = 40
    /\ pc = "log"
    /\ metagraph = [n |-> StartN + 1, version |-> 1]

\* C17: an iteration that has run its tasks without an error has logged
\* the status line once; with wandb_enabled it has emitted the five
\* statistics of miner_uid, once each, read from the metagraph assigned at
\* line 101 of the same iteration, and without it it has emitted nothing.
C17_TelemetryIffEnabled ==
    pc = "incr"
      => /\ Count(calls, "logging.info") = 1
         /\ Count(calls, "subtensor.metagraph") = 1
         /\ metagraph = [n |-> chain_n, version |-> chain_version]
         /\ ~wandb_enabled => (emitted = <<>> /\ ~Called("wandb.log"))
         /\ wandb_enabled
              => /\ Len(emitted) = 5
                 /\ Count(calls, "wandb.log") = 5
                 /\ \A i \in 1..5 :
                       /\ emitted[i].tag = MetricNames[i]
                       /\ emitted[i].uid = miner_uid
                       /\ emitted[i].snapshot = metagraph

\* C17 witness: the five statistics have been emitted from a metagraph
\* that the refresh of this iteration has changed.
C17_Witness ==
    /\ pc = "incr"
    /\ step = 20
    /\ wandb_enabled
    /\ Len(emitted) = 5
    /\ emitted[5].snapshot = [n |-> StartN + 1, version |-> 1]

\* C18: between two set_weights calls that returned, the block height
\* read for the later one exceeds the one read for the earlier by more
\* than 100.
C18_SubmissionsFarApart ==
    [][(pc = "setWeights" /\ pc' = "updateBlock" /\ submitted_block # NoBlock)
         => current_block - submitted_block > 100]_vars

\* C19: with no KeyboardInterrupt and no call raising forever, step
\* reaches every value explored (MaxLiveStep); and an iteration ends without a higher
\* step only when one of its calls has raised.
C19_StepEventuallyAdvances ==
    /\ <>(step = MaxLiveStep)
    /\ [][(pc # "top" /\ pc' = "top" /\ step' = step)
            => (last_exit' = "error" /\ calls' # calls)]_vars

\* C19 witness: the loop has come to step 20, past the iteration of step
\* 0, and a call of the iteration of step 20 has raised.
C19_Witness ==
    /\ step = 20
    /\ pc = "top"
    /\ last_exit = "error"
    /\ loop_state = "Running"

\* C20: last_updated_block never decreases, is never above the ledger's
\* block height, and every value it takes is the block height the ledger
\* reports at line 88 (or at startup).
C20_LastBlockMonotonic ==
    /\ [](startup_block <= last_updated_block
            /\ last_updated_block <= chain_block)
    /\ [][/\ last_updated_block' >= last_updated_block
          /\ last_updated_block' # last_updated_block
               => /\ pc = "updateBlock"
                  /\ last_updated_block' = chain_block
                  /\ calls' = Append(calls, "subtensor.block")]_vars

\* C20 witness: last_updated_block has moved from its startup value and
\* the ledger has moved on since.
C20_Witness ==
    /\ pc = "top"
    /\ last_updated_block = 101
    /\ chain_block = 202

====
